---- MODULE Spec2Model ----
(***************************************************************************)
(* Multi-root search orchestration of Advanced-Linux-Search.               *)
(*                                                                         *)
(* Two revisions of the engine are modelled side by side:                  *)
(*   "fast_search"  - src/fast_search.py  (thread pool, filters)           *)
(*   "fast_search2" - src/fast_search2.py (sequential, no filters)         *)
(* and both search modes ("filename", "content").                          *)
(*                                                                         *)
(* A request runs a common-folder pass over search_roots, finalizes it by  *)
(* dict.fromkeys + [:max_res], optionally asks for a full-drive pass and   *)
(* runs one external call per drive.                                       *)
(***************************************************************************)
EXTENDS Integers, Sequences, FiniteSets, TLC

VARIABLES
    engine,         \* which revision runs: "fast_search" | "fast_search2"
    mode,           \* "filename" | "content"
    max_res,        \* config["max_results"]
    exclude,        \* config["exclude"], a list of patterns
    filters,        \* SearchFilters of the request
    extra_folders,  \* config["extra_folders"]
    existing,       \* directories for which Path.exists() is true
    drives,         \* get_drives()
    search_roots,   \* the root list of the common-folder pass, in build order
    scanned,        \* the scanned set shared by the search_path calls
    status,         \* per call: position of the call
    kind,           \* per call: how the external process ended
    batch,          \* per call: the hit list the call returned
    results,        \* the accumulated result list
    firstPass,      \* results as finalized after the common-folder pass
    answer,         \* the reply to the "Scan full drive(s)" prompt
    pc,             \* position of the coordinating thread
    call,           \* a function called on its own: its name and arguments
    ret             \* what that call returned

vars == <<engine, mode, max_res, exclude, filters, extra_folders, existing,
          drives, search_roots, scanned, status, kind, batch, results,
          firstPass, answer, pc, call, ret>>

request == <<engine, mode, max_res, exclude, filters, extra_folders, existing,
             drives, search_roots>>

\* the call of a single function and its return value
single == <<call, ret>>

-----------------------------------------------------------------------------
(* Bounds *)

\* max_results ranges over 1..MaxRes
MaxRes == 3
\* at most MaxRoots roots are built for the common-folder pass
MaxRoots == 2

-----------------------------------------------------------------------------
(* Program constants *)

\* ThreadPoolExecutor(max_workers=4)
MaxWorkers == 4

\* COMMON_FOLDERS, shortened to its first two entries
COMMON_FOLDERS == <<"Desktop", "Documents">>

\* Optional[...] = None of SearchFilters; sizes and timestamps are >= 0
None == -1

-----------------------------------------------------------------------------
(* Sequence helpers *)

Range(s) == {s[k] : k \in 1..Len(s)}

Min(a, b) == IF a <= b THEN a ELSE b

\* s[:n] for n >= 0
Take(s, n) == SubSeq(s, 1, Min(n, Len(s)))

RECURSIVE Flatten(_)
Flatten(ss) == IF ss = <<>> THEN <<>> ELSE Head(ss) \o Flatten(Tail(ss))

\* the elements of s at the positions K, in the order of s
At(s, K) ==
    [i \in 1..Cardinality(K) |->
        s[CHOOSE k \in K : Cardinality({j \in K : j < k}) = i - 1]]

IsUnique(s) == \A a, b \in 1..Len(s) : a # b => s[a] # s[b]

-----------------------------------------------------------------------------
(* The file system and the external tools, as seen by one request *)

\* Path strings an external tool can print.  "/l" is a symbolic link to "/d",
\* so "/l/a" and "/d/a" name the same file; likewise the folder "E:/lx" is a
\* link to "E:/x".
Paths == {"/d/a", "/l/a", "/d/b.t", "/d/nm/c"}

\* the canonical (absolute, alias-resolved) form of a path; the engines never
\* compute it, it is what the uniqueness property is stated in
Canon(p) ==
    CASE p = "/l/a"  -> "/d/a"
      [] p = "E:/lx" -> "E:/x"
      [] OTHER       -> p

\* Path(path).parts
Parts(p) ==
    CASE p = "/d/a"    -> <<"/", "d", "a">>
      [] p = "/l/a"    -> <<"/", "l", "a">>
      [] p = "/d/b.t"  -> <<"/", "d", "b.t">>
      [] p = "/d/nm/c" -> <<"/", "d", "nm", "c">>

\* the characters of a path segment or of a pattern
Chars(s) ==
    CASE s = ""    -> <<>>
      [] s = "nm"  -> <<"n", "m">>
      [] s = "b.t" -> <<"b", ".", "t">>
      [] s = "*.t" -> <<"*", ".", "t">>
      [] s = "*d*" -> <<"*", "d", "*">>
      [] s = "n?"  -> <<"n", "?">>
      [] OTHER     -> <<s>>

\* os.stat of a hit at filter time
StatOf(p) ==
    CASE p = "/d/b.t" -> [kind |-> "file", st_size |-> 9, st_mtime |-> 4, st_ctime |-> 4]
      [] OTHER        -> [kind |-> "file", st_size |-> 2, st_mtime |-> 4, st_ctime |-> 4]

\* line.strip() of one raw output line
StripLine(l) ==
    CASE l = " /d/b.t " -> "/d/b.t"
      [] l = "  "       -> ""
      [] OTHER          -> l

\* What a tool may write to stdout for one call (raw lines)
ToolOutputs ==
    { <<>>,
      <<"/d/a", "  ", " /d/b.t ", "/d/a">>,
      <<"/d/nm/c", "/l/a", "/d/b.t">> }

\* How one external call can end: exit status 0, exit status # 0 (stdout is
\* still captured), subprocess.TimeoutExpired, or any other exception of
\* subprocess.run (tool missing, OSError).
Outcomes ==
    [kind : {"ok"}, stdout : ToolOutputs]
    \cup [kind : {"nonzero"}, stdout : {<<>>, <<"/d/nm/c", "/l/a", "/d/b.t">>}]
    \cup [kind : {"timeout"}, stdout : {<<"/d/a", "  ", " /d/b.t ", "/d/a">>}]
    \cup [kind : {"error"}, stdout : {<<>>}]

\* folders in which the tool finds nothing: it prints nothing or hangs until
\* the timeout
QuietFolders == <<"E:/p1", "E:/p2", "E:/p3", "E:/p4", "E:/p5", "E:/p6">>

\* how the call on a root can end
OutcomesAt(root) ==
    IF root \in Range(QuietFolders)
    THEN {o \in Outcomes : o.kind = "timeout" \/ (o.kind = "ok" /\ o.stdout = <<>>)}
    ELSE Outcomes

-----------------------------------------------------------------------------
(* run_cmd *)

RECURSIVE StrippedLines(_)
StrippedLines(raw) ==
    IF raw = <<>> THEN <<>>
    ELSE LET l == StripLine(Head(raw))
         IN  IF l = "" THEN StrippedLines(Tail(raw))
             ELSE <<l>> \o StrippedLines(Tail(raw))

\* variant: the output captured before the timeout is parsed too
run_cmd_KeepPartial(o) ==
    IF o.kind = "error" THEN <<>>
    ELSE StrippedLines(o.stdout)

\* run_cmd(cmd, timeout): the stripped non-empty stdout lines, [] when
\* subprocess.run raised; the exit status is not looked at.
run_cmd(o) ==
    IF o.kind \in {"timeout", "error"} THEN <<>>
    ELSE StrippedLines(o.stdout)

-----------------------------------------------------------------------------
(* should_exclude *)

\* fnmatch.fnmatchcase(name, pat) for patterns of literals, "*" and "?"
RECURSIVE FnMatch(_, _)
FnMatch(name, pat) ==
    IF pat = <<>> THEN name = <<>>
    ELSE IF Head(pat) = "*"
         THEN FnMatch(name, Tail(pat))
              \/ (name # <<>> /\ FnMatch(Tail(name), pat))
         ELSE /\ name # <<>>
              /\ (Head(pat) = "?" \/ Head(pat) = Head(name))
              /\ FnMatch(Tail(name), Tail(pat))

\* the parts of a relative pattern without "/"
PatternParts(pattern) == IF pattern = "" THEN <<>> ELSE <<pattern>>

\* PurePath.match(pattern) for a relative pattern: "ValueError" on an empty
\* pattern, else the pattern parts are matched from the right
PathMatch(parts, pattern) ==
    LET pp == PatternParts(pattern)
    IN  IF pp = <<>> THEN "ValueError"
        ELSE IF Len(pp) > Len(parts) THEN "False"
        ELSE IF \A k \in 1..Len(pp) :
                    FnMatch(Chars(parts[Len(parts) - k + 1]),
                            Chars(pp[Len(pp) - k + 1]))
             THEN "True" ELSE "False"

\* pattern in p.parts
InParts(parts, pattern) == \E k \in 1..Len(parts) : parts[k] = pattern

\* fast_search.py: segment test first, a raising match is swallowed
RECURSIVE should_exclude(_, _)
should_exclude(path, excl) ==
    IF excl = <<>> THEN "False"
    ELSE IF InParts(Parts(path), Head(excl)) THEN "True"
    ELSE IF PathMatch(Parts(path), Head(excl)) = "True" THEN "True"
    ELSE should_exclude(path, Tail(excl))

\* fast_search2.py: p.match(pattern) or pattern in p.parts, nothing caught
RECURSIVE should_exclude2(_, _)
should_exclude2(path, excl) ==
    IF excl = <<>> THEN "False"
    ELSE LET m == PathMatch(Parts(path), Head(excl))
         IN  IF m = "ValueError" THEN "ValueError"
             ELSE IF m = "True" \/ InParts(Parts(path), Head(excl)) THEN "True"
             ELSE should_exclude2(path, Tail(excl))

-----------------------------------------------------------------------------
(* apply_filters *)

NoFilters ==
    [min_size |-> None, max_size |-> None,
     modified_after |-> None, modified_before |-> None,
     created_after |-> None, created_before |-> None]

\* Python truth value of an Optional[int]
Truthy(x) == x # None /\ x # 0

\* variant: a hit that is not a readable regular file is dropped
apply_filters_FailClosed(st, f) ==
    /\ st.kind = "file"
    /\ ~(Truthy(f.min_size) /\ st.st_size < f.min_size)
    /\ ~(Truthy(f.max_size) /\ st.st_size > f.max_size)

\* apply_filters(path, filters) on the stat result st of path
apply_filters(st, f) ==
    IF st.kind = "error" THEN TRUE
    ELSE IF st.kind # "file" THEN TRUE
    ELSE IF Truthy(f.min_size) /\ st.st_size < f.min_size THEN FALSE
    ELSE IF Truthy(f.max_size) /\ st.st_size > f.max_size THEN FALSE
    ELSE IF f.modified_after # None /\ st.st_mtime < f.modified_after THEN FALSE
    ELSE IF f.modified_before # None /\ st.st_mtime > f.modified_before THEN FALSE
    ELSE IF f.created_after # None /\ st.st_ctime < f.created_after THEN FALSE
    ELSE IF f.created_before # None /\ st.st_ctime > f.created_before THEN FALSE
    ELSE TRUE

\* search_gui.py FilenameSearchWorker._apply_filters: os.stat on any kind of
\* path, size and modification bounds only, every exception keeps the hit
FilenameSearchWorker_apply_filters(st, f) ==
    IF st.kind \in {"error", "missing"} THEN TRUE
    ELSE IF Truthy(f.min_size) /\ st.st_size < f.min_size THEN FALSE
    ELSE IF Truthy(f.max_size) /\ st.st_size > f.max_size THEN FALSE
    ELSE IF f.modified_after # None /\ st.st_mtime < f.modified_after THEN FALSE
    ELSE IF f.modified_before # None /\ st.st_mtime > f.modified_before THEN FALSE
    ELSE TRUE

-----------------------------------------------------------------------------
(* Deduplication and capping *)

\* list(dict.fromkeys(s)): first occurrences, by string equality
DictFromKeys(s) ==
    At(s, {k \in 1..Len(s) : \A j \in 1..(k - 1) : s[j] # s[k]})

\* variant: the [:max_res] slice is missing
DedupCap_NoSlice(s, n) == DictFromKeys(s)

\* variant: the slice stops one element early
DedupCap_DropLast(s, n) ==
    IF DictFromKeys(s) = <<>> THEN <<>>
    ELSE Take(DictFromKeys(s), Min(n, Len(DictFromKeys(s)) - 1))

\* list(dict.fromkeys(results))[:max_res]
DedupCap(s, n) == Take(DictFromKeys(s), n)

-----------------------------------------------------------------------------
(* The filter chain of the two revisions *)

\* should_exclude as called by the running revision
ExcludeVerdict(eng, h, excl) ==
    IF eng = "fast_search" THEN should_exclude(h, excl)
    ELSE should_exclude2(h, excl)

\* one element of a list comprehension "not should_exclude(h) [and
\* apply_filters(h)]": "keep", "drop" or "raise".  fast_search2.py has no
\* apply_filters.
HitVerdict(eng, h, excl, f, withExclude, withFilters) ==
    LET e == IF withExclude THEN ExcludeVerdict(eng, h, excl) ELSE "False"
    IN  IF e = "ValueError" THEN "raise"
        ELSE IF e = "True" THEN "drop"
        ELSE IF withFilters /\ eng = "fast_search" /\ ~apply_filters(StatOf(h), f)
             THEN "drop"
        ELSE "keep"

\* the elements whose verdict is "keep", in list order
KeepMarked(hits, marks) ==
    At(hits, {k \in 1..Len(hits) : marks[k] = "keep"})

\* a list comprehension over hits with the given verdicts: it raises when
\* one element raises
Comprehension(hits, marks) ==
    [raised |-> \E k \in 1..Len(marks) : marks[k] = "raise",
     hits   |-> KeepMarked(hits, marks)]

\* the hits search_path returns for one root (fast_search.py 758-764, 872-874;
\* fast_search2.py 296-297, 376)
search_path_hits(eng, md, hits, excl, f) ==
    Comprehension(hits,
        [k \in 1..Len(hits) |->
            HitVerdict(eng, hits[k], excl, f, md = "filename", TRUE)])

\* content search: results = [r for r in results if not should_exclude(r)]
ExcludeResults(eng, md, res, excl, f) ==
    Comprehension(res,
        [k \in 1..Len(res) |->
            HitVerdict(eng, res[k], excl, f, md = "content", FALSE)])

\* full-drive pass: h not in results and not should_exclude(h) and
\* apply_filters(h)
drive_hits(eng, hits, res, excl, f) ==
    Comprehension(hits,
        [k \in 1..Len(hits) |->
            IF hits[k] \in Range(res) THEN "drop"
            ELSE HitVerdict(eng, hits[k], excl, f, TRUE, TRUE)])

-----------------------------------------------------------------------------
(* Root list *)

\* Path(drive) / "Users" / USER / folder
CommonPath(drive, folder) == drive \o "Users/u/" \o folder

\* Path(extra).is_absolute()
IsAbsolute(p) == p # "rel/x"

\* variant: a common folder is listed whether it exists or not
ExistingCommon_Unchecked(drive, folders, ex) ==
    [k \in 1..Len(folders) |-> CommonPath(drive, folders[k])]

RECURSIVE ExistingCommon(_, _, _)
ExistingCommon(drive, folders, ex) ==
    IF folders = <<>> THEN <<>>
    ELSE (IF CommonPath(drive, Head(folders)) \in ex
          THEN <<CommonPath(drive, Head(folders))>> ELSE <<>>)
         \o ExistingCommon(drive, Tail(folders), ex)

RECURSIVE ExistingExtra(_, _)
ExistingExtra(extras, ex) ==
    IF extras = <<>> THEN <<>>
    ELSE (IF IsAbsolute(Head(extras)) /\ Head(extras) \in ex
          THEN <<Head(extras)>> ELSE <<>>)
         \o ExistingExtra(Tail(extras), ex)

\* the loop that fills search_roots: per drive the existing common folders,
\* then the existing absolute extra folders
RECURSIVE BuildRoots(_, _, _)
BuildRoots(drv, extras, ex) ==
    IF drv = <<>> THEN <<>>
    ELSE ExistingCommon(Head(drv), COMMON_FOLDERS, ex)
         \o ExistingExtra(extras, ex)
         \o BuildRoots(Tail(drv), extras, ex)

-----------------------------------------------------------------------------
(* Inputs of a request *)

ExcludeChoices == { <<>>, <<"nm", "*.t">>, <<"*.t", "">> }

FilterChoices ==
    { NoFilters, [NoFilters EXCEPT !.min_size = 1, !.max_size = 3] }

\* replies to the prompt, after .strip().lower()
Answers == {"", "no", "y", "yes", "all"}

\* drives, registered extra folders and the directories that exist
Layouts ==
    { [drives |-> <<"C:/">>, extra |-> <<>>,
       existing |-> {"C:/Users/u/Desktop", "C:/Users/u/Documents"}],
      [drives |-> <<"C:/">>, extra |-> <<"E:/x">>,
       existing |-> {"C:/Users/u/Documents", "E:/x"}],
      [drives |-> <<"C:/", "D:/">>, extra |-> <<>>,
       existing |-> {"C:/Users/u/Desktop", "D:/Users/u/Desktop"}],
      [drives |-> <<"C:/">>, extra |-> <<"E:/x">>,
       existing |-> {"C:/Users/u/Desktop", "C:/Users/u/Documents", "E:/x"}] }

-----------------------------------------------------------------------------
(* State *)

\* no function is being called on its own
NoCall == [fn |-> "none"]
NoReturn == [state |-> "none"]

NRoots == Len(search_roots)
NDrives == Len(drives)
RootCalls == 1..NRoots
\* the call that scans drive d in the full-drive pass
DriveCall(d) == NRoots + d
Calls == 1..(NRoots + NDrives)

Init ==
    /\ engine \in {"fast_search", "fast_search2"}
    /\ mode \in {"filename", "content"}
    /\ max_res \in 1..MaxRes
    /\ exclude \in ExcludeChoices
    /\ filters \in (IF engine = "fast_search" THEN FilterChoices ELSE {NoFilters})
    /\ \E l \in Layouts :
          /\ drives = l.drives
          /\ extra_folders = l.extra
          /\ existing = l.existing
          /\ search_roots = BuildRoots(l.drives, l.extra, l.existing)
    /\ Len(search_roots) <= MaxRoots
    /\ scanned = {}
    /\ status = [c \in Calls |-> "queued"]
    /\ kind = [c \in Calls |-> "none"]
    /\ batch = [c \in Calls |-> <<>>]
    /\ results = <<>>
    /\ firstPass = <<>>
    /\ answer = "unasked"
    /\ pc = "pass1"
    /\ call = NoCall
    /\ ret = NoReturn

-----------------------------------------------------------------------------
(* Common-folder pass *)

\* variant: the new hits are put in front of the list
extend_Front(res, hits) == hits \o res

\* results.extend(hits)
extend(res, hits) == res \o hits

\* calls a pool thread is working on
InWorker == {c \in RootCalls : status[c] \in {"started", "checked", "running"}}

\* variant: a submitted call starts at once, however many are running
CanStart_Unbounded(c) == \A b \in 1..(c - 1) : status[b] # "queued"

\* fast_search.py: the pool runs the submitted calls in submission order on at
\* most max_workers threads.  fast_search2.py: search_path is called inline,
\* one root after the other.
CanStart(c) ==
    /\ \A b \in 1..(c - 1) : status[b] # "queued"
    /\ IF engine = "fast_search"
       THEN Cardinality(InWorker) < MaxWorkers
       ELSE \A b \in 1..(c - 1) : status[b] = "merged"

\* a pool thread (or the inline loop) enters search_path(root)
Start(c) ==
    /\ pc = "pass1"
    /\ c \in RootCalls
    /\ status[c] = "queued"
    /\ CanStart(c)
    /\ status' = [status EXCEPT ![c] = "started"]
    /\ UNCHANGED <<request, single, scanned, kind, batch, results, firstPass, answer, pc>>

\* if str(root) in scanned or not root.exists(): return []
Check(c) ==
    /\ pc = "pass1"
    /\ c \in RootCalls
    /\ status[c] = "started"
    /\ IF search_roots[c] \in scanned \/ search_roots[c] \notin existing
       THEN /\ status' = [status EXCEPT ![c] =
                            IF engine = "fast_search" THEN "returned" ELSE "merged"]
            /\ kind' = [kind EXCEPT ![c] = "skipped"]
       ELSE /\ status' = [status EXCEPT ![c] = "checked"]
            /\ kind' = kind
    /\ UNCHANGED <<request, single, scanned, batch, results, firstPass, answer, pc>>

\* scanned.add(str(root)), then the external call is started
Add(c) ==
    /\ pc = "pass1"
    /\ c \in RootCalls
    /\ status[c] = "checked"
    /\ scanned' = scanned \cup {search_roots[c]}
    /\ status' = [status EXCEPT ![c] = "running"]
    /\ UNCHANGED <<request, single, kind, batch, results, firstPass, answer, pc>>

\* the external call ends and search_path filters its hits.
\* fast_search.py: the hits become the result of the future.
\* fast_search2.py: results.extend(hits) inside search_path; an exception of
\* should_exclude leaves smart_search_*.
Finish(c) ==
    /\ pc = "pass1"
    /\ c \in RootCalls
    /\ status[c] = "running"
    /\ \E o \in OutcomesAt(search_roots[c]) :
         LET r == search_path_hits(engine, mode, run_cmd(o), exclude, filters)
         IN  /\ kind' = [kind EXCEPT ![c] = o.kind]
             /\ IF engine = "fast_search"
                THEN /\ status' = [status EXCEPT ![c] = "returned"]
                     /\ batch' = [batch EXCEPT ![c] = r.hits]
                     /\ UNCHANGED <<results, pc>>
                ELSE IF r.raised
                THEN /\ pc' = "raised"
                     /\ UNCHANGED <<status, batch, results>>
                ELSE /\ status' = [status EXCEPT ![c] = "merged"]
                     /\ batch' = [batch EXCEPT ![c] = r.hits]
                     /\ results' = extend(results, r.hits)
                     /\ pc' = pc
    /\ UNCHANGED <<request, single, scanned, firstPass, answer>>

\* fast_search.py: for future in as_completed(futures): results.extend(hits)
Collect(c) ==
    /\ pc = "pass1"
    /\ engine = "fast_search"
    /\ c \in RootCalls
    /\ status[c] = "returned"
    /\ status' = [status EXCEPT ![c] = "merged"]
    /\ results' = extend(results, batch[c])
    /\ UNCHANGED <<request, single, scanned, kind, batch, firstPass, answer, pc>>

\* variant: the collecting loop is left after the first completed future
PassOneJoined_First == \E c \in RootCalls : status[c] = "merged"

\* variant: the barrier is never passed
PassOneJoined_Never == FALSE

\* the with-block of the executor has been left and as_completed is
\* exhausted (fast_search.py); the loop over the roots has ended
\* (fast_search2.py)
PassOneJoined == \A c \in RootCalls : status[c] = "merged"

\* variant: ">" instead of ">="
GateOffered_Strict(res, n) == ~(Len(res) > n)

\* if len(results) >= max_res: return results   -- else the prompt is shown
GateOffered(res, n) == ~(Len(res) >= n)

\* results = list(dict.fromkeys(results))[:max_res], preceded in content
\* mode by the should_exclude comprehension; then the gate
Finalize1 ==
    /\ pc = "pass1"
    /\ PassOneJoined
    /\ \E r \in {ExcludeResults(engine, mode, results, exclude, filters)} :
       \E capped \in {DedupCap(r.hits, max_res)} :
          IF r.raised
          THEN /\ pc' = "raised"
               /\ UNCHANGED <<results, firstPass>>
          ELSE /\ results' = capped
               /\ firstPass' = capped
               /\ pc' = IF GateOffered(capped, max_res) THEN "prompt" ELSE "done"
    /\ UNCHANGED <<request, single, scanned, status, kind, batch, answer>>

-----------------------------------------------------------------------------
(* Escalation gate and full-drive pass *)

\* variant: everything but a refusal counts as consent
Accepts_Default(md, choice) == choice \notin {"n", "no"}

\* choice in ("y", "yes", "all") for filenames, ("y", "yes") for content
Accepts(md, choice) ==
    IF md = "filename" THEN choice \in {"y", "yes", "all"}
    ELSE choice \in {"y", "yes"}

\* choice = input(...).strip().lower()
Answer(choice) ==
    /\ pc = "prompt"
    /\ choice \in Answers
    /\ answer' = choice
    /\ pc' = IF Accepts(mode, choice) THEN "pass2" ELSE "done"
    /\ UNCHANGED <<request, single, scanned, status, kind, batch, results, firstPass>>

\* for drive in get_drives(): the external call on the drive is started
StartDrive(d) ==
    /\ pc = "pass2"
    /\ d \in 1..NDrives
    /\ status[DriveCall(d)] = "queued"
    /\ \A e \in 1..(d - 1) : status[DriveCall(e)] = "merged"
    /\ status' = [status EXCEPT ![DriveCall(d)] = "running"]
    /\ UNCHANGED <<request, single, scanned, kind, batch, results, firstPass, answer, pc>>

\* variant: the loop over the drives never breaks
LoopBreaks_Never(res, n) == FALSE

\* if len(results) >= max_res: break
LoopBreaks(res, n) == Len(res) >= n

\* the call on the drive ends; its hits are filtered and appended; after the
\* break or the last drive the function returns
\* list(dict.fromkeys(results))[:max_res]
FinishDrive(d) ==
    /\ pc = "pass2"
    /\ d \in 1..NDrives
    /\ status[DriveCall(d)] = "running"
    /\ \E o \in Outcomes :
         LET r == drive_hits(engine, run_cmd(o), results, exclude, filters)
             ext == extend(results, r.hits)
         IN  /\ kind' = [kind EXCEPT ![DriveCall(d)] = o.kind]
             /\ IF r.raised
                THEN /\ pc' = "raised"
                     /\ UNCHANGED <<status, batch, results>>
                ELSE /\ status' = [status EXCEPT ![DriveCall(d)] = "merged"]
                     /\ batch' = [batch EXCEPT ![DriveCall(d)] = r.hits]
                     /\ IF LoopBreaks(ext, max_res) \/ d = NDrives
                        THEN /\ results' = DedupCap(ext, max_res)
                             /\ pc' = "done"
                        ELSE /\ results' = ext
                             /\ pc' = pc
    /\ UNCHANGED <<request, single, scanned, firstPass, answer>>

-----------------------------------------------------------------------------
(* Specification *)

Next ==
    \/ \E c \in RootCalls : Start(c)
    \/ \E c \in RootCalls : Check(c)
    \/ \E c \in RootCalls : Add(c)
    \/ \E c \in RootCalls : Finish(c)
    \/ \E c \in RootCalls : Collect(c)
    \/ Finalize1
    \/ \E choice \in Answers : Answer(choice)
    \/ \E d \in 1..NDrives : StartDrive(d)
    \/ \E d \in 1..NDrives : FinishDrive(d)

Spec == Init /\ [][Next]_vars

-----------------------------------------------------------------------------
(* Properties *)

\* a result list has been handed out: shown at the prompt or returned
Observable == pc \in {"prompt", "done"}

\* the common-folder pass has been finalized
FirstPassDone == pc \in {"prompt", "pass2", "done"}

DriveStarted(d) == status[DriveCall(d)] # "queued"

AnyDriveStarted == \E d \in 1..NDrives : DriveStarted(d)

\* the batches of the common-folder pass, concatenated in root order
RootOrderBatches == Flatten([c \in RootCalls |-> batch[c]])

\* number of occurrences of p in s
Count(p, s) == Cardinality({k \in 1..Len(s) : s[k] = p})

\* the first n distinct elements of s, in order of first occurrence
RECURSIVE FirstNUniqueFrom(_, _, _)
FirstNUniqueFrom(s, n, acc) ==
    IF s = <<>> \/ Len(acc) >= n THEN acc
    ELSE IF Head(s) \in Range(acc) THEN FirstNUniqueFrom(Tail(s), n, acc)
    ELSE FirstNUniqueFrom(Tail(s), n, Append(acc, Head(s)))

FirstNUnique(s, n) == FirstNUniqueFrom(s, n, <<>>)

IsPrefix(s, t) == Len(s) <= Len(t) /\ SubSeq(t, 1, Len(s)) = s

\* C1: the result list holds at most max_res entries at every observable
\* point: the list finalized after the common-folder pass and the list
\* returned after the full-drive pass.
C1_AtMostMaxResults ==
    /\ Observable => Len(results) <= max_res
    /\ FirstPassDone => Len(firstPass) <= max_res

\* C1 witness: a full-drive pass returned a list cut to max_res although the
\* common-folder list plus the drive's new hits held more
C1_Witness ==
    /\ pc = "done"
    /\ DriveStarted(1)
    /\ Len(results) = max_res
    /\ Len(firstPass) + Len(batch[DriveCall(1)]) > max_res

\* C2: the per-root batches are merged in the original root order, whatever
\* the order in which the workers complete: once every root is merged the
\* accumulated list is the concatenation of the batches in root order.
C2_MergedInRootOrder ==
    (pc = "pass1" /\ PassOneJoined) => results = RootOrderBatches

\* C3: the capped output of the common-folder pass is the first max_res
\* unique hits of the per-root filtered batches taken in root order.
C3_FirstNUniqueInRootOrder ==
    FirstPassDone =>
        firstPass =
            FirstNUnique(
                ExcludeResults(engine, mode, RootOrderBatches, exclude, filters).hits,
                max_res)

\* C4: no two entries of an observable result list share a canonical path.
C4_NoDuplicateCanonicalPaths ==
    Observable =>
        \A a, b \in 1..Len(results) :
            a # b => Canon(results[a]) # Canon(results[b])

\* C5: a call that timed out contributes no hit, and once every root is
\* merged the accumulated list holds exactly the hits of the roots that did
\* not time out, each as often as its root returned it.
C5_TimeoutContributesNothing ==
    /\ \A c \in Calls : kind[c] = "timeout" => batch[c] = <<>>
    /\ (pc = "pass1" /\ PassOneJoined) =>
          \A p \in Paths :
              Count(p, results) =
                  Count(p, Flatten([c \in RootCalls |->
                              IF kind[c] = "timeout" THEN <<>> ELSE batch[c]]))

\* C5 witness: a search ended with hits of one root while another root's call
\* timed out
C5_Witness ==
    /\ pc = "done"
    /\ results # <<>>
    /\ \E c, b \in RootCalls : kind[c] = "timeout" /\ batch[b] # <<>>

\* C6: a call whose tool exits with a non-zero status returns zero hits.
C6_NonZeroExitGivesNoHits ==
    \A c \in Calls : kind[c] = "nonzero" => batch[c] = <<>>

\* C7: no exception leaves smart_search_filename or smart_search_content.
C7_NeverRaises == pc # "raised"

\* C8: a full-drive call is issued only after an explicit affirmative reply
\* to the prompt of this request.
C8_NoFullScanWithoutConsent ==
    AnyDriveStarted => answer \in {"y", "yes", "all"}

\* C8 witness: a full-drive call is in flight after the reply "y"
C8_Witness ==
    /\ answer = "y"
    /\ status[DriveCall(1)] = "running"

\* C9: the prompt is shown exactly when the common-folder pass ended with
\* fewer than max_res unique hits, and after a refusal the returned list is
\* the common-folder list, same entries in the same order.
C9_GateAndDecline ==
    /\ pc = "prompt" => Len(firstPass) < max_res
    /\ (pc = "done" /\ answer = "unasked") => Len(firstPass) >= max_res
    /\ (pc = "done" /\ answer \in {"", "no"}) =>
          /\ results = firstPass
          /\ ~AnyDriveStarted

\* C9 witness: the pass ended under max_res, the caller refused, and the
\* non-empty common-folder list was returned
C9_Witness ==
    /\ pc = "done"
    /\ answer = "no"
    /\ results # <<>>
    /\ Len(results) < max_res

\* C10: a full-drive call starts only when no common-folder call is in
\* flight, the common-folder list is merged, deduplicated and capped, and the
\* prompt has been answered.
C10_PassesSequential ==
    AnyDriveStarted =>
        /\ \A c \in RootCalls : status[c] = "merged"
        /\ answer # "unasked"
        /\ IsUnique(firstPass)
        /\ Len(firstPass) < max_res
        /\ IsPrefix(firstPass, results) \/ pc = "done"

\* C10 witness: with two roots merged, the call on the second drive is in
\* flight
C10_Witness ==
    /\ NRoots = 2
    /\ NDrives = 2
    /\ status[DriveCall(2)] = "running"

\* the first drive whose call returned p as a new hit
FirstDrive(p) ==
    CHOOSE d \in 1..NDrives :
        /\ p \in Range(batch[DriveCall(d)])
        /\ \A e \in 1..(d - 1) : p \notin Range(batch[DriveCall(e)])

\* C11: after an accepted full-drive pass the common-folder list is a prefix
\* of the returned list, so every common-folder hit keeps its position and
\* precedes every hit first found on a drive, and hits first found on an
\* earlier drive precede those first found on a later drive.
C11_FirstPassIsPrefix ==
    (pc = "done" /\ AnyDriveStarted) =>
        /\ IsPrefix(firstPass, results)
        /\ \A a, b \in (Len(firstPass) + 1)..Len(results) :
              a < b => FirstDrive(results[a]) <= FirstDrive(results[b])

\* C11 witness: both drives were scanned after a non-empty common-folder
\* pass, and the returned list holds the common-folder hits and drive hits
C11_Witness ==
    /\ pc = "done"
    /\ NDrives = 2
    /\ status[DriveCall(2)] = "merged"
    /\ firstPass # <<>>
    /\ Len(results) > Len(firstPass)

-----------------------------------------------------------------------------
(* Functions called on their own: the search variables stay idle *)

searchState == <<scanned, status, kind, batch, firstPass, answer, pc>>

\* no search is running while a single function is exercised
NoSearch ==
    /\ mode = "filename"
    /\ max_res = MaxRes
    /\ exclude = <<>>
    /\ filters = NoFilters
    /\ extra_folders = <<>>
    /\ existing = {}
    /\ drives = <<>>
    /\ search_roots = <<>>
    /\ scanned = {}
    /\ status = <<>>
    /\ kind = <<>>
    /\ batch = <<>>
    /\ firstPass = <<>>
    /\ answer = "unasked"
    /\ pc = "idle"

-----------------------------------------------------------------------------
(* String methods, on strings kept as sequences of characters *)

\* str.lstrip(c) / str.rstrip(c) / str.strip() (blank is the only whitespace used)
RECURSIVE lstrip(_, _)
lstrip(s, c) == IF s # <<>> /\ Head(s) = c THEN lstrip(Tail(s), c) ELSE s

RECURSIVE rstrip(_, _)
rstrip(s, c) ==
    IF s # <<>> /\ s[Len(s)] = c THEN rstrip(SubSeq(s, 1, Len(s) - 1), c) ELSE s

strip(s) == rstrip(lstrip(s, " "), " ")

\* s.replace(c, "")
remove(s, c) == SelectSeq(s, LAMBDA x : x # c)

\* s.split(sep): always at least one piece
RECURSIVE split(_, _)
split(s, sep) ==
    IF sep \notin Range(s)
    THEN <<s>>
    ELSE LET k == CHOOSE k \in 1..Len(s) :
                      s[k] = sep /\ \A j \in 1..(k - 1) : s[j] # sep
         IN  <<SubSeq(s, 1, k - 1)>> \o split(SubSeq(s, k + 1, Len(s)), sep)

lowerChar(c) ==
    CASE c = "A" -> "a"
      [] c = "D" -> "d"
      [] c = "S" -> "s"
      [] c = "X" -> "x"
      [] OTHER   -> c

\* s.lower()
lower(s) == [k \in 1..Len(s) |-> lowerChar(s[k])]

Digits == <<"0", "1", "2", "3", "4", "5", "6", "7", "8", "9">>

DigitValue(c) == (CHOOSE k \in 1..Len(Digits) : Digits[k] = c) - 1

\* int(s) raises ValueError unless s is a numeral; no sign or underscore can
\* reach it here, the pieces come from splitting at "-" and the typed
\* characters are those of Keys
IsInt(s) == s # <<>> /\ \A k \in 1..Len(s) : s[k] \in Range(Digits)

RECURSIVE int(_)
int(s) ==
    IF s = <<>> THEN 0
    ELSE Len(Digits) * int(SubSeq(s, 1, Len(s) - 1)) + DigitValue(s[Len(s)])

\* lst[j] with Python's indexing: a negative j counts from the end
PyIndex(lst, j) == IF j >= 0 THEN lst[j + 1] ELSE lst[Len(lst) + j + 1]

-----------------------------------------------------------------------------
(* display_results: the selection typed at the prompt *)

\* the result list shown, in display order
Listing == <<"/d/a", "/d/b.t", "/d/nm/c", "/l/a">>

\* most comma-separated tokens in one typed line
MaxTokens == 2

\* tokens a user may type between commas
Tokens ==
    { <<>>, <<"1">>, <<"2">>, <<"3">>, <<"0">>, <<"9">>, <<"1", "2">>,
      <<"a">>, <<"A">>, <<"d">>, <<"s">>, <<"x">>, <<" ", "2">>,
      <<"1", "-", "3">>, <<"2", "-", "3">>, <<"3", "-", "1">>,
      <<"0", "-", "2">>, <<"2", "-", "9">>, <<"-", "1">>,
      <<"1", "-", "2", "-", "3">> }

RECURSIVE Join(_)
Join(toks) ==
    IF toks = <<>> THEN <<>>
    ELSE IF Len(toks) = 1 THEN toks[1]
    ELSE toks[1] \o <<",">> \o Join(Tail(toks))

\* the lines input() may return
Lines == {Join(t) : t \in UNION {[1..n -> Tokens] : n \in 0..MaxTokens}}

\* what one part adds to `selected`; fast_search2.py unpacks the split outside
\* its try, so a part with two dashes raises there
part_numbers(eng, part) ==
    IF "-" \in Range(part)
    THEN LET pieces == split(part, "-") IN
         IF Len(pieces) # 2
         THEN [raised |-> eng = "fast_search2", nums |-> {}]
         ELSE IF IsInt(pieces[1]) /\ IsInt(pieces[2])
              THEN [raised |-> FALSE, nums |-> int(pieces[1])..int(pieces[2])]
              ELSE [raised |-> FALSE, nums |-> {}]
    ELSE IF IsInt(part)
         THEN [raised |-> FALSE, nums |-> {int(part)}]
         ELSE [raised |-> FALSE, nums |-> {}]

\* the loop over raw.replace(" ", "").split(",")
selected(eng, raw) ==
    LET parts == split(remove(raw, " "), ",") IN
    [raised |-> \E k \in 1..Len(parts) : part_numbers(eng, parts[k]).raised,
     nums   |-> UNION {part_numbers(eng, parts[k]).nums : k \in 1..Len(parts)}]

RECURSIVE sorted(_)
sorted(S) ==
    IF S = {} THEN <<>>
    ELSE LET m == CHOOSE m \in S : \A x \in S : m <= x
         IN  <<m>> \o sorted(S \ {m})

\* variant: index 0 passes the test
InBounds_FromZero(i, n) == 0 <= i /\ i <= n

\* the test `1 <= i <= len(results)`
InBounds(i, n) == 1 <= i /\ i <= n

\* the orders in which the comprehension may visit the indices that pass the
\* test: sorted() in fast_search.py; in fast_search2.py the iteration order of
\* the set, which the language leaves open
IndexOrders(eng, nums, n) ==
    IF eng = "fast_search"
    THEN {SelectSeq(sorted(nums), LAMBDA i : InBounds(i, n))}
    ELSE LET V == {i \in nums : InBounds(i, n)} IN
         {o \in [1..Cardinality(V) -> V] : IsUnique(o)}

Returned(v) == [state |-> "returned", value |-> v]

\* the outcomes of display_results(results) when input() returns `line`;
\* "again" is the call display_results(results, show_details=True)
display_results(eng, res, line) ==
    LET raw == strip(line) IN
    IF res = <<>> THEN {Returned(<<>>)}
    ELSE IF raw = <<>> THEN {Returned(<<>>)}
    ELSE IF eng = "fast_search" /\ lower(raw) = <<"a">> THEN {Returned(res)}
    ELSE IF eng = "fast_search" /\ lower(raw) = <<"d">>
         THEN {[state |-> "again", value |-> <<>>]}
    ELSE IF eng = "fast_search" /\ lower(raw) = <<"s">> THEN {Returned(<<>>)}
    ELSE LET sel == selected(eng, raw) IN
         IF sel.raised
         THEN {[state |-> "raised", value |-> <<>>]}
         ELSE {Returned([k \in 1..Len(o) |-> PyIndex(res, o[k] - 1)]) :
                  o \in IndexOrders(eng, sel.nums, Len(res))}

InitSelect ==
    /\ NoSearch
    /\ engine \in {"fast_search", "fast_search2"}
    /\ results \in {Take(Listing, n) : n \in 0..Min(MaxRes, Len(Listing))}
    /\ call = [fn |-> "display_results", show_details |-> FALSE, line |-> <<>>]
    /\ ret = [state |-> "pending", value |-> <<>>]

\* the user types a line and display_results returns or raises
Select ==
    /\ call.fn = "display_results"
    /\ ret.state = "pending"
    /\ \E line \in Lines :
          /\ \E o \in display_results(engine, results, line) :
                /\ o.state # "again"
                /\ ret' = o
          /\ call' = [call EXCEPT !.line = line]
    /\ UNCHANGED <<request, searchState, results>>

\* the user types "d": the list is shown with details and the prompt repeats
Details ==
    /\ call.fn = "display_results"
    /\ ret.state = "pending"
    /\ engine = "fast_search"
    /\ \E line \in Lines :
          \E o \in display_results(engine, results, line) : o.state = "again"
    /\ call' = [call EXCEPT !.show_details = TRUE]
    /\ UNCHANGED <<request, searchState, results, ret>>

NextSelect ==
    \/ Select
    \/ Details

SpecSelect == InitSelect /\ [][NextSelect]_vars

\* the indices the well-formed tokens of the typed line name, within 1..n
TypedIndices(line, n) ==
    LET parts == split(remove(strip(line), " "), ",") IN
    {i \in 1..n : \E k \in 1..Len(parts) :
        \/ IsInt(parts[k]) /\ int(parts[k]) = i
        \/ \E j \in 2..(Len(parts[k]) - 1) :
              /\ parts[k][j] = "-"
              /\ IsInt(SubSeq(parts[k], 1, j - 1))
              /\ IsInt(SubSeq(parts[k], j + 1, Len(parts[k])))
              /\ int(SubSeq(parts[k], 1, j - 1)) <= i
              /\ i <= int(SubSeq(parts[k], j + 1, Len(parts[k])))}

SelectReturned == call.fn = "display_results" /\ ret.state = "returned"

\* C12: the selection is results[i-1] for strictly ascending, duplicate-free
\* indices i in 1..N, in that order.
C12_SelectionAscending ==
    SelectReturned =>
        \E S \in SUBSET (1..Len(results)) :
            ret.value = [k \in 1..Cardinality(S) |-> results[sorted(S)[k]]]

\* C13: a malformed token never aborts the selection; the selection is the
\* union of what the well-formed tokens name.
C13_MalformedSkipped ==
    call.fn = "display_results" =>
        /\ ret.state # "raised"
        /\ (ret.state = "returned" /\ results # <<>>
              /\ (engine = "fast_search" => lower(strip(call.line)) \notin {<<"a">>, <<"s">>}))
            => Range(ret.value) =
                  {results[i] : i \in TypedIndices(call.line, Len(results))}

\* the typed line names no index of the list
NoValidToken == TypedIndices(call.line, Len(results)) = {}

\* the one-letter command "select all" of fast_search.py
SelectAllTyped == engine = "fast_search" /\ lower(strip(call.line)) = <<"a">>

\* C14 as stated: a line with no valid token (empty, out of range, reversed,
\* letters only) never returns a non-empty list of paths.
C14_NoValidTokenEmpty ==
    (SelectReturned /\ NoValidToken) => ret.value = <<>>

\* C14: a line with no valid token returns no path, except that in
\* fast_search.py the single letter a (either case) returns the whole list.
C14_NoValidTokenEmptyUnlessAll ==
    (SelectReturned /\ NoValidToken) =>
        ret.value = IF SelectAllTyped THEN results ELSE <<>>

C14_Witness ==
    /\ SelectReturned
    /\ results # <<>>
    /\ call.line = Join(<< <<"0">>, <<"1", "2">> >>)
    /\ NoValidToken
    /\ ret.value = <<>>

-----------------------------------------------------------------------------
(* should_exclude called on its own *)

\* longest exclude list tried
MaxPatterns == 2

\* entries of the exclude list
ExcludePatterns == {"nm", "*.t", "", "n?", "*d*", "a", "?"}

ExcludeLists == UNION {[1..n -> ExcludePatterns] : n \in 0..MaxPatterns}

InitExclude ==
    /\ NoSearch
    /\ engine \in {"fast_search", "fast_search2"}
    /\ results = <<>>
    /\ \E p \in Paths, excl \in ExcludeLists :
          call = [fn |-> "should_exclude", path |-> p, exclude |-> excl]
    /\ ret = [state |-> "pending", value |-> "None"]

\* should_exclude(path, exclude) returns True or False, or raises
CallShouldExclude ==
    /\ call.fn = "should_exclude"
    /\ ret.state = "pending"
    /\ LET v == IF engine = "fast_search"
                THEN should_exclude(call.path, call.exclude)
                ELSE should_exclude2(call.path, call.exclude)
       IN  ret' = [state |-> IF v = "ValueError" THEN "raised" ELSE "returned",
                   value |-> v]
    /\ UNCHANGED <<request, searchState, results, call>>

NextExclude == CallShouldExclude

SpecExclude == InitExclude /\ [][NextExclude]_vars

\* entry e excludes path p: it equals a segment, or it matches p as a glob
\* (wildcards stay within a segment, a relative pattern is matched against the
\* last segments)
EntryExcludes(p, e) ==
    \/ \E k \in 1..Len(Parts(p)) : Parts(p)[k] = e
    \/ PathMatch(Parts(p), e) = "True"

\* C15: should_exclude is true exactly when some exclude entry equals a path
\* segment or glob-matches the path, and false otherwise.
C15_ExcludeExact ==
    (call.fn = "should_exclude" /\ ret.state # "pending") =>
        /\ ret.state = "returned"
        /\ ret.value =
              IF \E k \in 1..Len(call.exclude) :
                     EntryExcludes(call.path, call.exclude[k])
              THEN "True" ELSE "False"

-----------------------------------------------------------------------------
(* The metadata filter called on its own *)

\* largest file size and size bound tried
MaxSize == 3

\* what stat finds at the hit's path: a regular file, a directory, nothing,
\* or an error such as permission denied
StatResults ==
    [kind : {"file", "dir", "missing", "error"}, st_size : 0..MaxSize,
     st_mtime : {4}, st_ctime : {4}]

SizeBounds == {None} \cup (0..MaxSize)

FilterSettings ==
    [min_size : SizeBounds, max_size : SizeBounds,
     modified_after : {None, 5}, modified_before : {None},
     created_after : {None}, created_before : {None}]

InitFilter ==
    /\ NoSearch
    /\ engine \in {"fast_search", "search_gui"}
    /\ results = <<>>
    /\ \E st \in StatResults, f \in FilterSettings :
          call = [fn |-> "apply_filters", stat |-> st, filters |-> f]
    /\ ret = [state |-> "pending", value |-> FALSE]

\* the filter decides whether the hit is kept
CallApplyFilters ==
    /\ call.fn = "apply_filters"
    /\ ret.state = "pending"
    /\ ret' = [state |-> "returned",
               value |-> IF engine = "fast_search"
                         THEN apply_filters(call.stat, call.filters)
                         ELSE FilenameSearchWorker_apply_filters(call.stat,
                                                                 call.filters)]
    /\ UNCHANGED <<request, searchState, results, call>>

NextFilter == CallApplyFilters

SpecFilter == InitFilter /\ [][NextFilter]_vars

FilterReturned == call.fn = "apply_filters" /\ ret.state = "returned"

\* only the two size bounds are set, with min_size <= max_size
BothSizeBounds ==
    /\ call.filters.min_size # None
    /\ call.filters.max_size # None
    /\ call.filters.min_size <= call.filters.max_size
    /\ call.filters.modified_after = None

\* C16: with both size bounds present (a bound of 0 included) a file of size s
\* is kept exactly when min_size <= s <= max_size.
C16_SizeBoundsInclusive ==
    (FilterReturned /\ call.stat.kind = "file" /\ BothSizeBounds) =>
        ret.value = (/\ call.filters.min_size <= call.stat.st_size
                     /\ call.stat.st_size <= call.filters.max_size)

\* C17: a hit whose path cannot be stat'ed is kept, whatever the bounds are.
C17_FailOpen ==
    (FilterReturned /\ call.stat.kind \in {"missing", "error"}) =>
        ret.value = TRUE

C17_Witness ==
    /\ FilterReturned
    /\ engine = "fast_search"
    /\ call.stat.kind = "error"
    /\ call.stat.st_size = 0
    /\ call.filters.min_size = 1
    /\ call.filters.modified_after = 5
    /\ ret.value = TRUE

-----------------------------------------------------------------------------
(* Requests whose configuration names a folder more than once *)

\* an extra folder registered twice; an extra folder that is a common folder;
\* an extra folder enumerated once per drive; an extra folder registered under
\* two names; a common folder followed by an extra folder of two drives
RepeatingLayouts ==
    { [drives |-> <<"C:/">>, extra |-> <<"E:/x", "E:/x">>,
       existing |-> {"E:/x"}],
      [drives |-> <<"C:/">>, extra |-> <<"C:/Users/u/Desktop">>,
       existing |-> {"C:/Users/u/Desktop"}],
      [drives |-> <<"C:/", "D:/">>, extra |-> <<"E:/x">>,
       existing |-> {"E:/x"}],
      [drives |-> <<"C:/">>, extra |-> <<"E:/x", "E:/lx">>,
       existing |-> {"E:/x", "E:/lx"}],
      [drives |-> <<"C:/", "D:/">>, extra |-> <<"E:/x">>,
       existing |-> {"C:/Users/u/Desktop", "E:/x"}] }

InitRoots ==
    /\ engine \in {"fast_search", "fast_search2"}
    /\ mode \in {"filename", "content"}
    /\ max_res \in 1..MaxRes
    /\ exclude = <<>>
    /\ filters = NoFilters
    /\ \E l \in RepeatingLayouts :
          /\ drives = l.drives
          /\ extra_folders = l.extra
          /\ existing = l.existing
          /\ search_roots = BuildRoots(l.drives, l.extra, l.existing)
    /\ Len(search_roots) <= MaxRoots
    /\ scanned = {}
    /\ status = [c \in Calls |-> "queued"]
    /\ kind = [c \in Calls |-> "none"]
    /\ batch = [c \in Calls |-> <<>>]
    /\ results = <<>>
    /\ firstPass = <<>>
    /\ answer = "unasked"
    /\ pc = "pass1"
    /\ call = NoCall
    /\ ret = NoReturn

SpecRoots == InitRoots /\ [][Next]_vars

\* the external tool has been started on the root of call c
Handed(c) ==
    \/ status[c] = "running"
    \/ kind[c] \in {o.kind : o \in Outcomes}

\* C18: within one request no canonical directory is handed to the external
\* tool by two calls of the common-folder pass.
C18_RootsHandedOnce ==
    \A a, b \in RootCalls :
        (a # b /\ Handed(a) /\ Handed(b)) =>
            Canon(search_roots[a]) # Canon(search_roots[b])

-----------------------------------------------------------------------------
(* Who writes the shared collections *)

\* a step taken by a pool thread of fast_search.py inside search_path
WorkerStep ==
    /\ engine = "fast_search"
    /\ \E c \in RootCalls : Start(c) \/ Check(c) \/ Add(c) \/ Finish(c)

\* C19: a worker thread only returns its hit batch; it never writes the
\* scanned set or the accumulated result list.
C19_WorkersOnlyReturn ==
    [][WorkerStep => (scanned' = scanned /\ results' = results)]_vars

-----------------------------------------------------------------------------
(* The query: from the command line or the menu to the compiled pattern *)

\* longest query typed
MaxQueryLen == 3

QueryKeys == {"a", " ", ".", "/", "*"}

\* args.query (empty when the argument is omitted or ""), a line typed at the
\* menu, and one regular-expression query
Queries ==
    UNION {[1..n -> QueryKeys] : n \in 0..MaxQueryLen}
        \cup {<<"r", "e", ":", "a">>}

\* s.split("/", 1) for s containing "/"
split1(s, sep) ==
    LET k == CHOOSE k \in 1..Len(s) :
                 s[k] = sep /\ \A j \in 1..(k - 1) : s[j] # sep
    IN  <<SubSeq(s, 1, k - 1), SubSeq(s, k + 1, Len(s))>>

\* s.startswith(prefix)
startswith(s, prefix) ==
    Len(s) >= Len(prefix) /\ SubSeq(s, 1, Len(prefix)) = prefix

build_everything_pattern(user_input) ==
    LET s == strip(user_input) IN
    IF s = <<>> THEN <<"*">>
    ELSE IF "." \in Range(s) /\ "/" \notin Range(s)
            /\ "*" \notin Range(s) /\ "?" \notin Range(s)
         THEN s
    ELSE IF "*" \in Range(s) \/ "?" \in Range(s)
            \/ startswith(s, <<"r", "e", ":">>)
         THEN s
    ELSE IF "/" \in Range(s)
         THEN LET name == split1(s, "/")[1]
                  ext  == lstrip(split1(s, "/")[2], ".")
              IN  IF ext # <<>>
                  THEN <<"*">> \o name \o <<"*", ".">> \o ext
                  ELSE <<"*">> \o name \o <<"*">>
    ELSE <<"*">> \o s \o <<"*">>

\* variant: no query counts as missing
Missing_Never(q) == FALSE

\* `not query`: None and "" are both false
Missing(q) == q = <<>>

InitQuery ==
    /\ NoSearch
    /\ engine = "fast_search"
    /\ results = <<>>
    /\ \E q \in Queries, c \in BOOLEAN :
          call = [fn |-> "main", query |-> q, content |-> c,
                  asked_again |-> FALSE]
    /\ ret = [state |-> "pending", mode |-> "filename", query |-> <<>>,
              pattern |-> <<>>]

\* main: `if not args.query and not args.content` opens the menu, else the
\* mode and the query come from the arguments
DetermineMode ==
    /\ call.fn = "main"
    /\ ret.state = "pending"
    /\ IF Missing(call.query) /\ ~call.content
       THEN ret' = [ret EXCEPT !.state = "menu"]
       ELSE ret' = [ret EXCEPT !.state = "query",
                               !.mode = IF call.content THEN "content"
                                        ELSE "filename",
                               !.query = call.query]
    /\ UNCHANGED <<request, searchState, results, call>>

\* interactive_menu, picks 1 and 2: an empty line prints "Query required!"
\* ("Text required!") and the menu starts again
Menu(pick, typed) ==
    /\ call.fn = "main"
    /\ ret.state = "menu"
    /\ IF Missing(strip(typed))
       THEN /\ call' = [call EXCEPT !.asked_again = TRUE]
            /\ ret' = ret
       ELSE /\ call' = call
            /\ ret' = [ret EXCEPT !.state = "query",
                                  !.mode = IF pick = "2" THEN "content"
                                           ELSE "filename",
                                  !.query = strip(typed)]
    /\ UNCHANGED <<request, searchState, results>>

\* main: `if not query: print("[Error] Query required."); sys.exit(1)`
RequireQuery ==
    /\ call.fn = "main"
    /\ ret.state = "query"
    /\ ret' = [ret EXCEPT !.state = IF Missing(ret.query) THEN "exit1"
                                    ELSE "accepted"]
    /\ UNCHANGED <<request, searchState, results, call>>

\* the search starts: smart_search_filename compiles the pattern,
\* smart_search_content hands the text to the tool as it is
StartSearch ==
    /\ call.fn = "main"
    /\ ret.state = "accepted"
    /\ ret' = [ret EXCEPT !.state = "searching",
                          !.pattern = IF ret.mode = "filename"
                                      THEN build_everything_pattern(ret.query)
                                      ELSE ret.query]
    /\ UNCHANGED <<request, searchState, results, call>>

NextQuery ==
    \/ DetermineMode
    \/ \E pick \in {"1", "2"}, typed \in Queries : Menu(pick, typed)
    \/ RequireQuery
    \/ StartSearch

SpecQuery == InitQuery /\ [][NextQuery]_vars

-----------------------------------------------------------------------------
(* The dedup-and-cap step applied to its own output *)

\* longest hit sequence handed to the step
MaxHits == 3

HitSequences == UNION {[1..n -> Paths] : n \in 0..MaxHits}

InitDedup ==
    /\ NoSearch
    /\ engine \in {"fast_search", "fast_search2"}
    /\ results = <<>>
    /\ \E L \in HitSequences, n \in 1..MaxRes :
          call = [fn |-> "dedup", hits |-> L, max_res |-> n]
    /\ ret = [state |-> "pending", first |-> <<>>, value |-> <<>>]

\* results = list(dict.fromkeys(results))[:max_res] after the first pass
DedupFirst ==
    /\ call.fn = "dedup"
    /\ ret.state = "pending"
    /\ ret' = [state |-> "once",
               first |-> DedupCap(call.hits, call.max_res),
               value |-> DedupCap(call.hits, call.max_res)]
    /\ UNCHANGED <<request, searchState, results, call>>

\* return list(dict.fromkeys(results))[:max_res] on the list the first
\* application produced (nothing was added in between)
DedupAgain ==
    /\ call.fn = "dedup"
    /\ ret.state = "once"
    /\ ret' = [ret EXCEPT !.state = "twice",
                          !.value = DedupCap(ret.first, call.max_res)]
    /\ UNCHANGED <<request, searchState, results, call>>

NextDedup ==
    \/ DedupFirst
    \/ DedupAgain

SpecDedup == InitDedup /\ [][NextDedup]_vars

\* C21: the dedup-and-cap step is idempotent: applied to its own output it
\* returns that output unchanged.
C21_DedupIdempotent ==
    (call.fn = "dedup" /\ ret.state = "twice") => ret.value = ret.first

C21_Witness ==
    /\ call.fn = "dedup"
    /\ ret.state = "twice"
    /\ ~IsUnique(call.hits)
    /\ Len(DictFromKeys(call.hits)) > call.max_res
    /\ ret.value = ret.first
    /\ ret.value # <<>>

-----------------------------------------------------------------------------
(* The root list built on its own *)

\* most extra folders registered in the configuration
MaxExtras == 2

\* get_drives(): the drive letters that exist, in alphabetical order
DriveLists == {<<"C:/">>, <<"C:/", "D:/">>}

ExtraFolders == {"E:/x", "E:/y", "rel/x"}

ExtraLists == UNION {[1..n -> ExtraFolders] : n \in 0..MaxExtras}

\* the paths for which Path.exists() can be true
Places ==
    {CommonPath(d, COMMON_FOLDERS[k]) :
        d \in {"C:/", "D:/"}, k \in 1..Len(COMMON_FOLDERS)} \cup ExtraFolders

InitRootList ==
    /\ NoSearch
    /\ engine = "fast_search"
    /\ results = <<>>
    /\ \E drv \in DriveLists, extras \in ExtraLists, ex \in SUBSET Places :
          call = [fn |-> "search_roots", drives |-> drv, extra |-> extras,
                  existing |-> ex]
    /\ ret = [state |-> "pending", value |-> <<>>]

\* the loop over get_drives() that fills search_roots
FillRoots ==
    /\ call.fn = "search_roots"
    /\ ret.state = "pending"
    /\ ret' = [state |-> "returned",
               value |-> BuildRoots(call.drives, call.extra, call.existing)]
    /\ UNCHANGED <<request, searchState, results, call>>

NextRootList == FillRoots

SpecRootList == InitRootList /\ [][NextRootList]_vars

\* every candidate root: drive by drive, the common folders in catalog order,
\* then the extra folders in registration order
Candidates(drv, extras) ==
    Flatten([d \in 1..Len(drv) |->
                [k \in 1..Len(COMMON_FOLDERS) |->
                    CommonPath(drv[d], COMMON_FOLDERS[k])] \o extras])

\* C22: the root list is the candidates in drive order, catalog order and
\* registration order, without those that do not exist (or are relative).
C22_RootListOrdered ==
    (call.fn = "search_roots" /\ ret.state = "returned") =>
        ret.value =
            SelectSeq(Candidates(call.drives, call.extra),
                      LAMBDA p : p \in call.existing /\ IsAbsolute(p))

C22_Witness ==
    /\ call.fn = "search_roots"
    /\ ret.state = "returned"
    /\ call.drives = <<"C:/", "D:/">>
    /\ call.extra = <<"E:/y", "E:/x">>
    /\ call.existing = {"C:/Users/u/Documents", "D:/Users/u/Desktop", "E:/x"}
    /\ ret.value = <<"C:/Users/u/Documents", "E:/x", "D:/Users/u/Desktop", "E:/x">>

-----------------------------------------------------------------------------
(* The cap during the full-drive pass *)

\* the hits accumulated when the loop reaches drive d: the first-pass list
\* and what the earlier drives appended
AccumulatedBefore(d) ==
    Len(firstPass) + Len(Flatten([e \in 1..(d - 1) |-> batch[DriveCall(e)]]))

\* C23: during the full-drive pass no external call is issued for a drive once
\* the accumulated hits have reached max_res.
C23_NoScanAfterCap ==
    \A d \in 1..NDrives : DriveStarted(d) => AccumulatedBefore(d) < max_res

C23_Witness ==
    /\ pc = "done"
    /\ NDrives = 2
    /\ status[DriveCall(1)] = "merged"
    /\ ~DriveStarted(2)
    /\ AccumulatedBefore(2) >= max_res
    /\ Len(firstPass) < max_res

\* C24: a later drive is skipped only when max_res unique hits have been
\* collected.
C24_SkipOnlyAtUniqueCap ==
    (/\ pc = "done"
     /\ \E d \in 1..NDrives : DriveStarted(d)
     /\ \E d \in 1..NDrives : ~DriveStarted(d))
        => Len(results) = max_res

-----------------------------------------------------------------------------
(* search_gui.py: FilenameSearchWorker.run *)

\* most directories handed to the worker
MaxDirs == 2

Directories == <<"/d", "/l", "/e">>

\* the stripped non-empty lines of result.stdout that pass _apply_filters
RECURSIVE FilteredFiles(_, _)
FilteredFiles(lines, f) ==
    IF lines = <<>> THEN <<>>
    ELSE (IF FilenameSearchWorker_apply_filters(StatOf(Head(lines)), f)
          THEN <<Head(lines)>> ELSE <<>>)
         \o FilteredFiles(Tail(lines), f)

InitWorker ==
    /\ NoSearch
    /\ engine = "search_gui"
    /\ results = <<>>
    /\ \E n \in 1..Min(MaxDirs, Len(Directories)), f \in FilterChoices :
          call = [fn |-> "run", search_dirs |-> Take(Directories, n),
                  filters |-> f]
    /\ ret = [state |-> "running", kinds |-> <<>>, emitted |-> <<>>]

\* one turn of `for directory in search_dirs`: subprocess.run with
\* timeout=60; TimeoutExpired and any other exception leave the loop for the
\* handlers at the end of run, which emit the error signal
ScanDirectory ==
    /\ call.fn = "run"
    /\ ret.state = "running"
    /\ Len(ret.kinds) < Len(call.search_dirs)
    /\ \E o \in Outcomes :
          IF o.kind \in {"timeout", "error"}
          THEN /\ ret' = [ret EXCEPT !.state = "error",
                                     !.kinds = Append(@, o.kind)]
               /\ results' = results
          ELSE /\ ret' = [ret EXCEPT !.kinds = Append(@, o.kind)]
               /\ results' = results
                     \o FilteredFiles(StrippedLines(o.stdout), call.filters)
    /\ UNCHANGED <<request, searchState, call>>

\* self.finished.emit(results) after the last directory
EmitFinished ==
    /\ call.fn = "run"
    /\ ret.state = "running"
    /\ Len(ret.kinds) = Len(call.search_dirs)
    /\ ret' = [ret EXCEPT !.state = "finished", !.emitted = results]
    /\ UNCHANGED <<request, searchState, results, call>>

NextWorker ==
    \/ ScanDirectory
    \/ EmitFinished

SpecWorker == InitWorker /\ [][NextWorker]_vars

\* C25: a timeout or failure of the call for one directory does not end the
\* worker: it goes on to the later directories and to the finished signal.
C25_DirectoryFailureIsLocal ==
    (/\ call.fn = "run"
     /\ \E k \in 1..Len(ret.kinds) : ret.kinds[k] \in {"timeout", "error"})
        => ret.state \in {"running", "finished"}

-----------------------------------------------------------------------------
(* Range tokens that leave 1..N *)

\* the indices named by the tokens of the typed line when a range token with
\* an end outside 1..n counts as malformed and names nothing
IndicesOfTokensInRange(line, n) ==
    LET parts == split(remove(strip(line), " "), ",") IN
    {i \in 1..n : \E k \in 1..Len(parts) :
        \/ IsInt(parts[k]) /\ int(parts[k]) = i
        \/ \E j \in 2..(Len(parts[k]) - 1) :
              /\ parts[k][j] = "-"
              /\ IsInt(SubSeq(parts[k], 1, j - 1))
              /\ IsInt(SubSeq(parts[k], j + 1, Len(parts[k])))
              /\ 1 <= int(SubSeq(parts[k], 1, j - 1))
              /\ int(SubSeq(parts[k], j + 1, Len(parts[k]))) <= n
              /\ int(SubSeq(parts[k], 1, j - 1)) <= i
              /\ i <= int(SubSeq(parts[k], j + 1, Len(parts[k])))}

\* C26: a range token whose start or end lies outside 1..N contributes no
\* index; the selection is what the other tokens name.
C26_OutOfRangeRangeSkipped ==
    (/\ SelectReturned
     /\ results # <<>>
     /\ engine = "fast_search" =>
            lower(strip(call.line)) \notin {<<"a">>, <<"s">>})
        => Range(ret.value) =
              {results[i] : i \in IndicesOfTokensInRange(call.line, Len(results))}

-----------------------------------------------------------------------------
(* Termination of a search *)

\* a filename search of fast_search.py
InitLive == Init /\ engine = "fast_search" /\ mode = "filename"

\* Every external call returns or hits its timeout (run_cmd always returns),
\* the pool runs every submitted call, and the user answers the prompt: a
\* step that is possible is eventually taken.
SpecLive == InitLive /\ [][Next]_vars /\ WF_vars(Next)

\* C27: under these assumptions a search eventually returns its result list.
C27_SearchReturns == <>(pc = "done")

C27_Witness ==
    /\ engine = "fast_search"
    /\ pc = "done"
    /\ \E c \in RootCalls : kind[c] = "timeout"
    /\ \A d \in 1..NDrives : status[DriveCall(d)] = "merged"
    /\ NDrives = 2

-----------------------------------------------------------------------------
(* Requests with more roots than pool threads *)

\* most roots of such a request
MaxPoolRoots == 5

InitPool ==
    /\ engine \in {"fast_search", "fast_search2"}
    /\ mode \in {"filename", "content"}
    /\ max_res = MaxRes
    /\ exclude = <<>>
    /\ filters = NoFilters
    /\ drives = <<"C:/">>
    /\ \E n \in 1..Min(MaxPoolRoots, Len(QuietFolders)) :
          /\ extra_folders = Take(QuietFolders, n)
          /\ existing = Range(Take(QuietFolders, n))
    /\ search_roots = BuildRoots(drives, extra_folders, existing)
    /\ scanned = {}
    /\ status = [c \in Calls |-> "queued"]
    /\ kind = [c \in Calls |-> "none"]
    /\ batch = [c \in Calls |-> <<>>]
    /\ results = <<>>
    /\ firstPass = <<>>
    /\ answer = "unasked"
    /\ pc = "pass1"
    /\ call = NoCall
    /\ ret = NoReturn

SpecPool == InitPool /\ [][Next]_vars

\* the external invocations in flight
Running == {c \in RootCalls : status[c] = "running"}

\* C28: during a common-folder pass at most 4 external invocations are in
\* flight and at most 4 calls are held by worker threads, one per thread.
C28_AtMostFourInFlight ==
    /\ Cardinality(Running) <= MaxWorkers
    /\ Cardinality(InWorker) <= MaxWorkers

C28_Witness ==
    /\ engine = "fast_search"
    /\ NRoots > MaxWorkers
    /\ Cardinality(Running) = MaxWorkers
    /\ \E c \in RootCalls : status[c] = "queued"

-----------------------------------------------------------------------------
(* search_gui.py: SearchGUI.perform_search and the worker's signals *)

\* most searches started in one session
MaxSearches == 3

\* what calls perform_search: the Search button, Return in the search field,
\* the Ctrl+Return shortcut, the F5 shortcut
Triggers == {"button", "Return", "Ctrl+Return", "F5"}

\* A worker is "running" until run() emits its signal, "emitted" while the
\* queued signal waits and run() has not returned, "ended" when the thread has
\* finished and the signal still waits, "handled" after the slot has run.
InitGui ==
    /\ NoSearch
    /\ engine = "search_gui"
    /\ results = <<>>
    /\ call = [fn |-> "perform_search", trigger |-> "none", pattern |-> ""]
    /\ ret = [state |-> "idle", workers |-> <<>>, displayed |-> 0,
              search_button |-> TRUE]

\* self.current_worker and self.current_worker.isRunning()
CurrentWorkerRunning(workers) ==
    /\ workers # <<>>
    /\ workers[Len(workers)].state \in {"running", "emitted"}

\* perform_search: refused while the current worker runs or without a
\* pattern, else the list is cleared and a new worker is started
PerformSearch(trigger, pattern) ==
    /\ call.fn = "perform_search"
    /\ trigger = "button" => ret.search_button
    /\ Len(ret.workers) < MaxSearches
    /\ call' = [call EXCEPT !.trigger = trigger, !.pattern = pattern]
    /\ IF CurrentWorkerRunning(ret.workers) \/ pattern = ""
       THEN ret' = ret
       ELSE ret' = [state |-> "searching",
                    workers |-> Append(ret.workers,
                                       [state |-> "running", signal |-> "none"]),
                    displayed |-> 0,
                    search_button |-> FALSE]
    /\ UNCHANGED <<request, searchState, results>>

\* SearchWorker.run: self.finished.emit(results) or self.error.emit(str(e));
\* the connection is queued, the slot runs later in the GUI thread
WorkerEmits(w, signal) ==
    /\ call.fn = "perform_search"
    /\ w \in 1..Len(ret.workers)
    /\ ret.workers[w].state = "running"
    /\ ret' = [ret EXCEPT !.workers[w] = [state |-> "emitted", signal |-> signal]]
    /\ UNCHANGED <<request, searchState, results, call>>

\* run() returns: isRunning() is false from now on
WorkerEnds(w) ==
    /\ call.fn = "perform_search"
    /\ w \in 1..Len(ret.workers)
    /\ ret.workers[w].state = "emitted"
    /\ ret' = [ret EXCEPT !.workers[w].state = "ended"]
    /\ UNCHANGED <<request, searchState, results, call>>

\* the GUI thread delivers the oldest waiting signal: on_search_finished shows
\* the results it carries, on_search_error a message; both enable the button
HandleSignal(w) ==
    /\ call.fn = "perform_search"
    /\ w \in 1..Len(ret.workers)
    /\ ret.workers[w].state \in {"emitted", "ended"}
    /\ \A v \in 1..(w - 1) : ret.workers[v].state = "handled"
    /\ ret' = [ret EXCEPT !.workers[w].state = "handled",
                          !.displayed = IF ret.workers[w].signal = "finished"
                                        THEN w ELSE @,
                          !.search_button = TRUE,
                          !.state = "idle"]
    /\ UNCHANGED <<request, searchState, results, call>>

NextGui ==
    \/ \E trigger \in Triggers, pattern \in {"", "x"} :
          PerformSearch(trigger, pattern)
    \/ \E w \in 1..MaxSearches, signal \in {"finished", "error"} :
          WorkerEmits(w, signal)
    \/ \E w \in 1..MaxSearches : WorkerEnds(w)
    \/ \E w \in 1..MaxSearches : HandleSignal(w)

SpecGui == InitGui /\ [][NextGui]_vars

\* C29: no worker is started while one runs, no signal of an earlier worker
\* is handled after a later search has started, and what is displayed belongs
\* to the search started last.
C29_ResultsOfLatestSearch ==
    call.fn = "perform_search" =>
        /\ \A w \in 1..(Len(ret.workers) - 1) : ret.workers[w].state = "handled"
        /\ ret.displayed \in {0, Len(ret.workers)}

-----------------------------------------------------------------------------
(* fast_search.py: the search history kept in the configuration *)

\* history[:20]
HistoryLimit == 20

\* most searches completed in one session
MaxCompleted == 3

\* ext of a search without --ext
NoExt == "None"

\* an entry as add_to_history builds it
HistoryEntry(mode_, query, ext, results_count, now) ==
    [mode |-> mode_, query |-> query, ext |-> ext,
     timestamp |-> now, results_count |-> results_count]

\* the mutation of C30: the list is never cut
add_to_history_Uncapped(history, mode_, query, ext, results_count, now) ==
    <<HistoryEntry(mode_, query, ext, results_count, now)>> \o history

\* history.insert(0, entry); config["history"] = history[:20]
add_to_history(history, mode_, query, ext, results_count, now) ==
    Take(<<HistoryEntry(mode_, query, ext, results_count, now)>> \o history,
         HistoryLimit)

\* the history an earlier session left in the configuration file: n entries
\* written at the times 1..n, the newest first
StoredHistory(n) ==
    [k \in 1..n |-> HistoryEntry("filename", "a", NoExt, 0, n + 1 - k)]

\* what main passes for one search: the mode with its extension, the query
\* and len(results)
Searches ==
    { [mode |-> m.mode, ext |-> m.ext, query |-> "x", results_count |-> n] :
        m \in {[mode |-> "filename", ext |-> NoExt],
               [mode |-> "content", ext |-> "py"]},
        n \in {0, MaxHits} }

InitHistory ==
    /\ NoSearch
    /\ engine = "fast_search"
    /\ results = <<>>
    /\ \E n \in 0..HistoryLimit :
          /\ call = [fn |-> "add_to_history", completed |-> 0,
                     search |-> [mode |-> "none", ext |-> NoExt, query |-> "",
                                 results_count |-> 0],
                     before |-> StoredHistory(n)]
          /\ ret = [state |-> "loaded", history |-> StoredHistory(n), now |-> n]

\* main: a search has returned its results, add_to_history records it; the
\* clock has advanced since the entry before
CompleteSearch(s) ==
    /\ call.fn = "add_to_history"
    /\ call.completed < MaxCompleted
    /\ call' = [call EXCEPT !.completed = @ + 1, !.search = s,
                            !.before = ret.history]
    /\ ret' = [state |-> "saved",
               history |-> add_to_history(ret.history, s.mode, s.query, s.ext,
                                          s.results_count, ret.now + 1),
               now |-> ret.now + 1]
    /\ UNCHANGED <<request, searchState, results>>

NextHistory == \E s \in Searches : CompleteSearch(s)

SpecHistory == InitHistory /\ [][NextHistory]_vars

\* C30: the history holds at most 20 entries, the newest first; a completed
\* search has put exactly one entry {mode, query, ext, results_count,
\* timestamp} at the front, the entries it found follow unchanged, and the
\* oldest of them is gone when there were already 20.
C30_HistoryBounded ==
    call.fn = "add_to_history" =>
        /\ Len(ret.history) <= HistoryLimit
        /\ \A i \in 1..Len(ret.history) : \A j \in (i + 1)..Len(ret.history) :
              ret.history[i].timestamp > ret.history[j].timestamp
        /\ call.completed > 0 =>
              /\ DOMAIN Head(ret.history) =
                    {"mode", "query", "ext", "results_count", "timestamp"}
              /\ Head(ret.history).mode = call.search.mode
              /\ Head(ret.history).query = call.search.query
              /\ Head(ret.history).ext = call.search.ext
              /\ Head(ret.history).results_count = call.search.results_count
              /\ Head(ret.history).timestamp = ret.now
              /\ Tail(ret.history) =
                    IF Len(call.before) < HistoryLimit THEN call.before
                    ELSE Take(call.before, Len(call.before) - 1)

C30_Witness ==
    /\ call.fn = "add_to_history"
    /\ call.completed = 2
    /\ Len(call.before) = HistoryLimit
    /\ Len(ret.history) = HistoryLimit
    /\ ret.history[HistoryLimit].timestamp = 3

====
